---- MODULE Spec2Model ----
(***************************************************************************)
(* Model of the two-hop postal-code -> temperature request chain:          *)
(*   Front Service  (service_a/api/handler.go)                             *)
(*   Back Service   (the instrumented handler of service_b/api)            *)
(* One request chain is followed from the client's POST to the client's    *)
(* response; the collaborators (City Resolver, Temperature Resolver, the   *)
(* network between the two services) answer nondeterministically.          *)
(* Beside it: the Front Service of package main (service_a/main.go) on the *)
(* same request, the validators as pure functions, two requests served at  *)
(* once, and the start of a process (cmd/server/main.go of each service).  *)
(***************************************************************************)
EXTENDS Integers, Sequences, FiniteSets, TLC

(***************************************************************************)
(* PART 1 - float64 arithmetic.                                            *)
(* Go computes the temperatures in float64 and encoding/json prints a      *)
(* float64 with the shortest decimal that parses back to it.  Naturals     *)
(* wider than a machine word are bit sequences, least significant bit      *)
(* first, without high zero bits (the empty sequence is 0).                *)
(***************************************************************************)

\* Width of the float64 significand (IEEE 754 binary64).
MantBits == 53

\* Largest number of fraction digits the decimal printer tries.
MaxFrac == 16

\* Width of a limb: the arithmetic below works on limbs of LimbBits bits so
\* that every intermediate product fits a machine integer.
LimbBits == 12

LimbBase == 2 ^ LimbBits

\* x without its high zero bits.
Norm(x) ==
  IF \A i \in 1..Len(x) : x[i] = 0 THEN <<>>
  ELSE SubSeq(x, 1, CHOOSE i \in 1..Len(x) :
                      x[i] = 1 /\ \A j \in (i + 1)..Len(x) : x[j] = 0)

FromNat(n) == Norm([i \in 1..31 |-> (n \div (2 ^ (i - 1))) % 2])

Zeros(n) == [i \in 1..n |-> 0]

Shl(x, n) == IF x = <<>> THEN <<>> ELSE Zeros(n) \o x

Shr(x, n) == IF n >= Len(x) THEN <<>> ELSE SubSeq(x, n + 1, Len(x))

BitAt(x, i) == IF i <= Len(x) THEN x[i] ELSE 0

RECURSIVE LimbAt(_, _, _)
LimbAt(x, j, t) ==
  IF t = LimbBits THEN 0
  ELSE BitAt(x, LimbBits * (j - 1) + t + 1) * (2 ^ t) + LimbAt(x, j, t + 1)

ToLimbs(x) ==
  [j \in 1..((Len(x) + LimbBits - 1) \div LimbBits) |-> LimbAt(x, j, 0)]

ToBits(l) ==
  Norm([i \in 1..(LimbBits * Len(l)) |->
          (l[((i - 1) \div LimbBits) + 1] \div (2 ^ ((i - 1) % LimbBits))) % 2])

RECURSIVE LAddC(_, _, _)
LAddC(x, y, c) ==
  IF x = <<>> /\ y = <<>> THEN (IF c = 0 THEN <<>> ELSE <<c>>)
  ELSE LET a == IF x = <<>> THEN 0 ELSE Head(x)
           b == IF y = <<>> THEN 0 ELSE Head(y)
           s == a + b + c
       IN  <<s % LimbBase>> \o LAddC(IF x = <<>> THEN <<>> ELSE Tail(x),
                                     IF y = <<>> THEN <<>> ELSE Tail(y),
                                     s \div LimbBase)

\* x - y for x >= y, limb by limb with a borrow.
RECURSIVE LSubB(_, _, _)
LSubB(x, y, br) ==
  IF x = <<>> THEN <<>>
  ELSE LET b == IF y = <<>> THEN 0 ELSE Head(y)
           d == Head(x) - b - br
       IN  <<d % LimbBase>> \o LSubB(Tail(x), IF y = <<>> THEN <<>> ELSE Tail(y),
                                     IF d < 0 THEN 1 ELSE 0)

\* x times one limb d, plus a carry.
RECURSIVE LMulSmall(_, _, _)
LMulSmall(x, d, c) ==
  IF x = <<>> THEN (IF c = 0 THEN <<>> ELSE <<c>>)
  ELSE LET s == Head(x) * d + c
       IN  <<s % LimbBase>> \o LMulSmall(Tail(x), d, s \div LimbBase)

RECURSIVE LMul(_, _)
LMul(x, y) ==
  IF y = <<>> THEN <<>>
  ELSE LAddC(LMulSmall(x, Head(y), 0), <<0>> \o LMul(x, Tail(y)), 0)

\* Short division by a small d, most significant limb first: [q, r].
RECURSIVE LDivSmall(_, _, _, _)
LDivSmall(x, d, i, st) ==
  IF i = 0 THEN st
  ELSE LET cur == st.r * LimbBase + x[i]
       IN  LDivSmall(x, d, i - 1, [q |-> <<cur \div d>> \o st.q, r |-> cur % d])

BAdd(x, y) == ToBits(LAddC(ToLimbs(x), ToLimbs(y), 0))

BSub(x, y) == ToBits(LSubB(ToLimbs(x), ToLimbs(y), 0))

BMul(x, y) == ToBits(LMul(ToLimbs(x), ToLimbs(y)))

\* Comparison of two normalised naturals: -1, 0 or 1.
BCmpAt(x, y, h) == IF x[h] > y[h] THEN 1 ELSE -1

BCmp(x, y) ==
  IF Len(x) > Len(y) THEN 1
  ELSE IF Len(x) < Len(y) THEN -1
  ELSE IF x = y THEN 0
  ELSE BCmpAt(x, y, CHOOSE i \in 1..Len(x) :
                      x[i] # y[i] /\ \A j \in (i + 1)..Len(x) : x[j] = y[j])

\* Powers of ten are taken at most four digits at a time, so that a partial
\* remainder next to a limb fits one machine word.
Chunk(k) == IF k >= 4 THEN 4 ELSE k

RECURSIVE Pow10(_)
Pow10(k) ==
  IF k = 0 THEN <<1>>
  ELSE BMul(FromNat(10 ^ Chunk(k)), Pow10(k - Chunk(k)))

\* l divided by 10^k: the quotient and whether any remainder was dropped.
RECURSIVE DivPow10(_, _, _)
DivPow10Next(one, k, inexact) ==
  DivPow10(one.q, k - Chunk(k), inexact \/ one.r # 0)

DivPow10(l, k, inexact) ==
  IF k = 0 THEN [q |-> l, inexact |-> inexact]
  ELSE DivPow10Next(LDivSmall(l, 10 ^ Chunk(k), Len(l), [q |-> <<>>, r |-> 0]),
                    k, inexact)

\* Drop the n low bits of x, rounding to nearest, ties to even: q is x
\* without them.
RoundShiftQ(x, n, q) ==
  IF BitAt(x, n) = 1
     /\ ((\E i \in 1..(n - 1) : BitAt(x, i) = 1) \/ BitAt(q, 1) = 1)
    THEN BAdd(q, <<1>>)
    ELSE q

RoundShift(x, n) == IF n = 0 THEN x ELSE RoundShiftQ(x, n, Norm(Shr(x, n)))

\* An exact dyadic number is [neg, m, e], of value (-1)^neg * m * 2^e.
\* A float64 is a dyadic whose m has exactly MantBits bits, or Zero64.
\* (Subnormals, infinities and the sign of zero are outside the readings
\* modelled here.)
Zero64 == [neg |-> FALSE, m |-> <<>>, e |-> 0]

Dyadic(neg, m, e) == [neg |-> neg, m |-> m, e |-> e]

\* The rounded significand q of a value that had n bits too many.
Round64Q(neg, q, e, n) ==
  IF Len(q) > MantBits THEN Dyadic(neg, Shr(q, 1), e + n + 1)
  ELSE Dyadic(neg, q, e + n)

\* Rounding of the exact value (-1)^neg * m * 2^e, m normalised, to the
\* nearest float64.
Round64M(neg, m, e) ==
  IF m = <<>> THEN Zero64
  ELSE IF Len(m) <= MantBits
    THEN Dyadic(neg, Shl(m, MantBits - Len(m)), e - (MantBits - Len(m)))
    ELSE Round64Q(neg, RoundShift(m, Len(m) - MantBits), e, Len(m) - MantBits)

Round64(d) == Round64M(d.neg, Norm(d.m), d.e)

DMul(a, b) == Dyadic(a.neg # b.neg, BMul(a.m, b.m), a.e + b.e)

\* The sum of two values whose significands ma, mb are aligned at exponent e.
DAddAligned(an, bn, ma, mb, e, c) ==
  IF an = bn THEN Dyadic(an, BAdd(ma, mb), e)
  ELSE IF c = 0 THEN Zero64
  ELSE IF c > 0 THEN Dyadic(an, BSub(ma, mb), e)
  ELSE Dyadic(bn, BSub(mb, ma), e)

DAddAt(a, b, ma, mb, e) == DAddAligned(a.neg, b.neg, ma, mb, e, BCmp(ma, mb))

DAddExp(a, b, e) == DAddAt(a, b, Shl(a.m, a.e - e), Shl(b.m, b.e - e), e)

DAdd(a, b) ==
  IF a.m = <<>> THEN b
  ELSE IF b.m = <<>> THEN a
  ELSE DAddExp(a, b, IF a.e < b.e THEN a.e ELSE b.e)

\* float64 operations: the exact result, rounded once.
FMul(a, b) == Round64(DMul(a, b))
FAdd(a, b) == Round64(DAdd(a, b))
\* x*y + z computed with a single rounding (fused multiply-add).
FMA(a, b, c) == Round64(DAdd(DMul(a, b), c))

\* A decimal is [neg, p, k], of value (-1)^neg * p / 10^k, p a bit sequence.
Dec(neg, p, k) == [neg |-> neg, p |-> FromNat(p), k |-> k]

\* strconv.ParseFloat: the float64 nearest to a decimal.  The quotient
\* p * 2^s / 10^k is taken with two guard bits and a sticky bit, then
\* rounded once.
ParseQuot(neg, s, qr) ==
  Round64(Dyadic(neg, <<IF qr.inexact THEN 1 ELSE 0>> \o ToBits(qr.q), -s - 1))

ParseScaled(neg, n, k, s) ==
  ParseQuot(neg, s, DivPow10(ToLimbs(Shl(n, s)), k, FALSE))

ParseGuard(t) == IF t > 0 THEN t ELSE 0

ParseNorm(neg, n, k) ==
  IF n = <<>> THEN Zero64
  ELSE ParseScaled(neg, n, k,
                   ParseGuard((MantBits + 2) - (Len(n) - Len(Pow10(k)))))

ParseFloat(dec) == ParseNorm(dec.neg, Norm(dec.p), dec.k)

\* The decimal with k fraction digits nearest to the float64 f.
RoundDecM(f, k, m) ==
  [neg |-> f.neg,
   p   |-> IF f.e >= 0 THEN Shl(m, f.e) ELSE RoundShift(m, -f.e),
   k   |-> k]

RoundDec(f, k) == RoundDecM(f, k, BMul(f.m, Pow10(k)))

\* strconv.FormatFloat(f, 'f', -1, 64) as encoding/json uses it: the
\* shortest decimal that parses back to f.
RECURSIVE FormatFrom(_, _)
FormatTry(f, k, d) ==
  IF k >= MaxFrac \/ ParseFloat(d) = f THEN d ELSE FormatFrom(f, k + 1)

FormatFrom(f, k) == FormatTry(f, k, RoundDec(f, k))

FormatFloat(f) == IF f = Zero64 THEN Dec(FALSE, 0, 0) ELSE FormatFrom(f, 0)

(***************************************************************************)
(* PART 2 - values: postal codes, JSON documents, errors, HTTP messages.   *)
(***************************************************************************)

Digits == {"0", "1", "2", "3", "4", "5", "6", "7", "8", "9"}

\* A postal code is a sequence of characters.
CepMaringa == <<"8", "7", "0", "4", "3", "4", "8", "0">>
CepZeros   == <<"0", "0", "0", "0", "0", "0", "0", "0">>
CepShort   == <<"1", "2", "3">>
CepLetter  == <<"8", "7", "0", "4", "3", "4", "8", "a">>
CepLong    == <<"8", "7", "0", "4", "3", "4", "8", "0", "1">>
CepNewline == <<"8", "7", "0", "4", "3", "4", "8", "0", "\n">>
CepEmpty   == <<>>

CepSamples ==
  {CepMaringa, CepZeros, CepShort, CepLetter, CepLong, CepNewline, CepEmpty}

\* A compiled regular expression of the shape of ^\d{8}$: whether it is
\* anchored at the beginning of the text, the character class it repeats, how
\* many times, and whether it is anchored at the end of the text.  \d is the
\* ASCII digits, and $ without the m flag is the end of the text only.
MustCompile(beginText, class, count, endText) ==
  [beginText |-> beginText, class |-> class, count |-> count,
   endText |-> endText]

\* The position after count characters of class from position i of s, and 0
\* when s does not have them there.
RECURSIVE MatchRepeat(_, _, _, _)
MatchRepeat(class, count, s, i) ==
  IF count = 0 THEN i
  ELSE IF i <= Len(s) /\ s[i] \in class
    THEN MatchRepeat(class, count - 1, s, i + 1)
    ELSE 0

MatchAt(re, s, i) ==
  /\ MatchRepeat(re.class, re.count, s, i) # 0
  /\ re.endText => MatchRepeat(re.class, re.count, s, i) = Len(s) + 1

\* Regexp.MatchString: whether s contains a match.
MatchString(re, s) ==
  \E i \in (IF re.beginText THEN {1} ELSE 1..(Len(s) + 1)) : MatchAt(re, s, i)

\* cepRegex ^\d{8}$ of the Front Service.
cepRegex == MustCompile(TRUE, Digits, 8, TRUE)

\* A validator whose expression is not anchored at the end.
IsValidCEPPrefix(cep) == MatchString(MustCompile(TRUE, Digits, 8, FALSE), cep)

IsValidCEP(cep) == MatchString(cepRegex, cep)

\* A Back Service validator that only asks for a code that is not empty.
isValidCEPNonEmpty(cep) == Len(cep) > 0

\* cepRegex ^\d{8}$ of the Back Service.
cepRegexB == MustCompile(TRUE, Digits, 8, TRUE)

isValidCEP(cep) == MatchString(cepRegexB, cep)

\* A JSON member as a decoder meets it: absent, null, a string, a boolean or
\* a number.
JAbsent   == [j |-> "absent", s |-> "", b |-> FALSE, n |-> Dec(FALSE, 0, 0)]
JNull     == [j |-> "null", s |-> "", b |-> FALSE, n |-> Dec(FALSE, 0, 0)]
JStr(s)   == [j |-> "str", s |-> s, b |-> FALSE, n |-> Dec(FALSE, 0, 0)]
JBool(b)  == [j |-> "bool", s |-> "", b |-> b, n |-> Dec(FALSE, 0, 0)]
JNum(d)   == [j |-> "num", s |-> "", b |-> FALSE, n |-> d]

\* encoding/json into a Go string field: absent and null leave the zero value,
\* a JSON string is stored, any other JSON type is an UnmarshalTypeError.
UnmarshalString(v) ==
  IF v.j = "str" THEN [ok |-> TRUE, v |-> v.s]
  ELSE IF v.j \in {"absent", "null"} THEN [ok |-> TRUE, v |-> ""]
  ELSE [ok |-> FALSE, v |-> ""]

\* An error value: the sentinel it is (errors.Is) and the text Error() returns,
\* a format with its numeric and textual arguments.
Str(text) == [text |-> text, num |-> -1, extra |-> ""]
Errorf(text, num, extra) ==
  [sentinel |-> "", text |-> text, num |-> num, extra |-> extra]
NoErr == [sentinel |-> "nil", text |-> "", num |-> -1, extra |-> ""]
ErrorText(err) == [text |-> err.text, num |-> err.num, extra |-> err.extra]

\* var ErrNotFound = errors.New("can not find zipcode")
ErrNotFound ==
  [sentinel |-> "ErrNotFound", text |-> "can not find zipcode", num |-> -1,
   extra |-> ""]

\* errors.Is(err, ErrNotFound)
IsErrNotFound(err) == err.sentinel = "ErrNotFound"

\* HTTP status codes (net/http).
StatusOK == 200
StatusBadRequest == 400
StatusNotFound == 404
StatusUnprocessableEntity == 422
StatusInternalServerError == 500

\* An HTTP body on the wire between the services and to the client: an error
\* document {"message": ...}, a weather document {"city","temp_C","temp_F",
\* "temp_K"} with decimal numbers, or text that is not such a document
\* ("garbage": not JSON, "badtype": a member of the wrong JSON type,
\* "empty": no bytes at all).
ZeroDec == Dec(FALSE, 0, 0)
ErrorBody(msg) ==
  [t |-> "error", message |-> msg, city |-> "",
   temp_C |-> ZeroDec, temp_F |-> ZeroDec, temp_K |-> ZeroDec]
WeatherBody(city, c, f, k) ==
  [t |-> "weather", message |-> Str(""), city |-> city,
   temp_C |-> c, temp_F |-> f, temp_K |-> k]
OtherBody(t) ==
  [t |-> t, message |-> Str(""), city |-> "",
   temp_C |-> ZeroDec, temp_F |-> ZeroDec, temp_K |-> ZeroDec]

Response(status, body) == [status |-> status, body |-> body]

\* The Go values handed to WriteJSON: ErrorResponse{Message} and
\* TempResponse / WeatherResponse {City, TempC, TempF, TempK float64}.
ErrorResponse(msg) ==
  [t |-> "ErrorResponse", Message |-> msg, City |-> "",
   TempC |-> Zero64, TempF |-> Zero64, TempK |-> Zero64]
TempResponse(city, c, f, k) ==
  [t |-> "TempResponse", Message |-> Str(""), City |-> city,
   TempC |-> c, TempF |-> f, TempK |-> k]

\* json.NewEncoder(w).Encode(data): every float64 is printed in its shortest
\* decimal form.
JSONEncode(data) ==
  IF data.t = "ErrorResponse" THEN ErrorBody(data.Message)
  ELSE WeatherBody(data.City, FormatFloat(data.TempC), FormatFloat(data.TempF),
                   FormatFloat(data.TempK))

\* WriteJSON: the status line and the encoded document are written to w, the
\* sequence of writes the handler made.
WriteJSON(w, data, code) == Append(w, Response(code, JSONEncode(data)))

\* WriteError(w, msg, code) = WriteJSON(w, ErrorResponse{Message: msg}, code)
WriteError(w, msg, code) == WriteJSON(w, ErrorResponse(msg), code)

\* What a client reads of a handler's writes: the first status line and
\* document; net/http answers 200 with no body for a handler that wrote
\* nothing.
Served(w) == IF w = <<>> THEN Response(StatusOK, OtherBody("empty")) ELSE Head(w)

(***************************************************************************)
(* PART 3 - tracing.  tel = [spans, next]: the spans started so far, in    *)
(* order, and the next unused trace id.  A context is [trace, span]: the   *)
(* trace id (0: none) and the name of the span it carries.                 *)
(***************************************************************************)

NewSpan(name, trace, parent) ==
  [name |-> name, trace |-> trace, parent |-> parent, status |-> "unset",
   nStatus |-> 0, nEnd |-> 0, statusAtEnd |-> "open", errors |-> 0]

\* The trace a span started under ctx belongs to: the trace of ctx, a new one
\* when ctx carries none.
StartTrace(tel, ctx) == IF ctx.trace = 0 THEN tel.next ELSE ctx.trace

\* The next unused trace id after a span was started under ctx.
StartNext(tel, ctx) == IF ctx.trace = 0 THEN tel.next + 1 ELSE tel.next

\* tracer.Start(ctx, name): a span, child of the span in ctx.
TracerStart(tel, name, ctx) ==
  [spans |-> Append(tel.spans, NewSpan(name, StartTrace(tel, ctx), ctx.span)),
   next  |-> StartNext(tel, ctx)]

SpanIdx(tel, name) == CHOOSE i \in 1..Len(tel.spans) : tel.spans[i].name = name

\* The context tracer.Start returns: it carries the span just started.
SpanContext(tel, name) ==
  [trace |-> tel.spans[SpanIdx(tel, name)].trace, span |-> name]

\* propagator.Inject(ctx, headers): the trace id written to the headers.
Inject(ctx) == ctx.trace

\* propagator.Extract(ctx, headers): the remote context of the headers, or
\* ctx unchanged when they carry none.
Extract(ctx, hdr) == IF hdr = 0 THEN ctx ELSE [trace |-> hdr, span |-> "remote"]

\* otelhttp.NewHandler around the router: the server span of the inbound
\* request, under the trace of its headers or a new one.
ServerContext(tel, hdr) ==
  [trace |-> IF hdr = 0 THEN tel.next ELSE hdr, span |-> "server"]

ServerTel(tel, hdr) ==
  [tel EXCEPT !.next = IF hdr = 0 THEN tel.next + 1 ELSE tel.next]

\* span.SetStatus(code): counted; Ok is final, Error replaces Unset, and a
\* span that has ended ignores it.
SetStatus(tel, name, code) ==
  [tel EXCEPT !.spans[SpanIdx(tel, name)] =
     [@ EXCEPT !.nStatus = @ + 1,
               !.status = IF tel.spans[SpanIdx(tel, name)].nEnd > 0
                             \/ @ = "ok" THEN @ ELSE code]]

\* span.RecordError(err)
RecordError(tel, name) ==
  [tel EXCEPT !.spans[SpanIdx(tel, name)] = [@ EXCEPT !.errors = @ + 1]]

\* span.End(): counted; the status the span had when it first ended is kept.
End(tel, name) ==
  [tel EXCEPT !.spans[SpanIdx(tel, name)] =
     [@ EXCEPT !.nEnd = @ + 1,
               !.statusAtEnd = IF tel.spans[SpanIdx(tel, name)].nEnd = 0
                                 THEN tel.spans[SpanIdx(tel, name)].status
                                 ELSE @]]

(***************************************************************************)
(* PART 4 - the Back Service (instrumented handler).  A handler is cut at  *)
(* the outbound calls it blocks on; each piece is an operator from the     *)
(* state before to the state after.  A reply of a collaborator is          *)
(* [kind, status, body, err]: kind "transport" (the call failed), "read"   *)
(* (the body could not be read) or "resp".                                 *)
(***************************************************************************)

Transport(err) ==
  [kind |-> "transport", status |-> 0, body |-> [t |-> "none"], err |-> err]
ReadFailure(err) ==
  [kind |-> "read", status |-> 0, body |-> [t |-> "none"], err |-> err]
Reply(status, body) ==
  [kind |-> "resp", status |-> status, body |-> body, err |-> NoErr]

\* A body of the City Resolver: a JSON object with its localidade and erro
\* members, the JSON value null, or text that is not JSON.
ViaCEPObject(localidade, erro) ==
  [t |-> "object", localidade |-> localidade, erro |-> erro]
ViaCEPText(t) == [t |-> t, localidade |-> JAbsent, erro |-> JAbsent]

\* A body of the Temperature Resolver: a JSON object with its current.temp_c
\* member, or text that is not JSON.
WeatherObject(temp_c) == [t |-> "object", temp_c |-> temp_c]
WeatherText(t) == [t |-> t, temp_c |-> JAbsent]

\* json.Unmarshal into ViaCEPResponse{City `localidade`, Error `erro`}
UnmarshalViaCEP(body) ==
  IF body.t = "null" THEN [err |-> NoErr, City |-> "", Error |-> ""]
  ELSE IF body.t # "object"
    THEN [err |-> Errorf("invalid character looking for beginning of value",
                         -1, ""),
          City |-> "", Error |-> ""]
  ELSE IF ~UnmarshalString(body.localidade).ok
    THEN [err |-> Errorf("json: cannot unmarshal into Go struct field", -1,
                         "ViaCEPResponse.localidade of type string"),
          City |-> "", Error |-> ""]
  ELSE IF ~UnmarshalString(body.erro).ok
    THEN [err |-> Errorf("json: cannot unmarshal into Go struct field", -1,
                         "ViaCEPResponse.erro of type string"),
          City |-> UnmarshalString(body.localidade).v, Error |-> ""]
  ELSE [err |-> NoErr, City |-> UnmarshalString(body.localidade).v,
        Error |-> UnmarshalString(body.erro).v]

\* A span that fails: RecordError, SetStatus(codes.Error), and the deferred
\* End on return.
FailSpan(tel, name) == End(SetStatus(RecordError(tel, name), name, "error"), name)

\* A span that succeeds: SetStatus(codes.Ok) and the deferred End on return.
OkSpan(tel, name) == End(SetStatus(tel, name, "ok"), name)

decodeViaCEPChecked(tel, viaCEP) ==
  IF viaCEP.err # NoErr
    THEN [tel |-> FailSpan(tel, "service-b: decode-viacep-response"),
          city |-> "", err |-> viaCEP.err]
  ELSE IF viaCEP.Error # "" \/ viaCEP.City = ""
    THEN [tel |-> FailSpan(tel, "service-b: decode-viacep-response"),
          city |-> "", err |-> ErrNotFound]
  ELSE [tel |-> OkSpan(tel, "service-b: decode-viacep-response"),
        city |-> viaCEP.City, err |-> NoErr]

decodeViaCEPResponse(tel, ctx, body) ==
  decodeViaCEPChecked(TracerStart(tel, "service-b: decode-viacep-response", ctx),
                      UnmarshalViaCEP(body))

getCityByCEPDecoded(d) ==
  IF d.err # NoErr
    THEN [tel |-> FailSpan(d.tel, "service-b: get-city-by-cep"),
          city |-> "", err |-> d.err]
    ELSE [tel |-> OkSpan(d.tel, "service-b: get-city-by-cep"),
          city |-> d.city, err |-> NoErr]

\* getCityByCEP from the return of HTTPClient.Do on: the status of the reply
\* is not looked at.
getCityByCEP(tel, reply) ==
  IF reply.kind \in {"transport", "read"}
    THEN [tel |-> FailSpan(tel, "service-b: get-city-by-cep"),
          city |-> "", err |-> reply.err]
    ELSE getCityByCEPDecoded(
           decodeViaCEPResponse(tel, SpanContext(tel, "service-b: get-city-by-cep"),
                                reply.body))

\* encoding/json into a float64 field: absent and null leave 0, a JSON number
\* is parsed to the nearest float64, any other JSON type is an error.
UnmarshalFloat(v) ==
  IF v.j = "num" THEN [ok |-> TRUE, v |-> ParseFloat(v.n)]
  ELSE IF v.j \in {"absent", "null"} THEN [ok |-> TRUE, v |-> Zero64]
  ELSE [ok |-> FALSE, v |-> Zero64]

\* json.Unmarshal into WeatherAPIResponse{Current{TempC `temp_c`}}
UnmarshalWeather(body) ==
  IF body.t # "object"
    THEN [err |-> Errorf("invalid character looking for beginning of value",
                         -1, ""),
          TempC |-> Zero64]
  ELSE IF ~(body.temp_c.j \in {"num", "absent", "null"})
    THEN [err |-> Errorf("json: cannot unmarshal into Go struct field", -1,
                         "WeatherAPIResponse.current.temp_c of type float64"),
          TempC |-> Zero64]
  ELSE [err |-> NoErr, TempC |-> UnmarshalFloat(body.temp_c).v]

decodeWeatherChecked(tel, weather) ==
  IF weather.err # NoErr
    THEN [tel |-> FailSpan(tel, "service-b: decode-weather-response"),
          tempC |-> Zero64, err |-> weather.err]
    ELSE [tel |-> OkSpan(tel, "service-b: decode-weather-response"),
          tempC |-> weather.TempC, err |-> NoErr]

decodeWeatherResponse(tel, ctx, body) ==
  decodeWeatherChecked(TracerStart(tel, "service-b: decode-weather-response", ctx),
                       UnmarshalWeather(body))

getTempByCityDecoded(d) ==
  IF d.err # NoErr
    THEN [tel |-> FailSpan(d.tel, "service-b: get-temp-by-city"),
          tempC |-> Zero64, err |-> d.err]
    ELSE [tel |-> OkSpan(d.tel, "service-b: get-temp-by-city"),
          tempC |-> d.tempC, err |-> NoErr]

\* getTempByCity returning on a status that is not 200 with the error
\* recorded but no status set on its span.
getTempByCityStatusUnset(tel, reply) ==
  IF reply.kind = "transport"
    THEN [tel |-> FailSpan(tel, "service-b: get-temp-by-city"),
          tempC |-> Zero64, err |-> reply.err]
  ELSE IF reply.kind = "read"
    THEN [tel |-> FailSpan(tel, "service-b: get-temp-by-city"),
          tempC |-> Zero64,
          err |-> Errorf("failed to read weatherapi response body: %w", -1,
                         reply.err.text)]
  ELSE IF reply.status # StatusOK
    THEN [tel |-> End(RecordError(tel, "service-b: get-temp-by-city"),
                      "service-b: get-temp-by-city"),
          tempC |-> Zero64,
          err |-> Errorf("weatherapi error: %d - %s", reply.status,
                         reply.body.t)]
  ELSE getTempByCityDecoded(
         decodeWeatherResponse(tel, SpanContext(tel, "service-b: get-temp-by-city"),
                               reply.body))

\* getTempByCity from the return of HTTPClient.Do on.
getTempByCity(tel, reply) ==
  IF reply.kind = "transport"
    THEN [tel |-> FailSpan(tel, "service-b: get-temp-by-city"),
          tempC |-> Zero64, err |-> reply.err]
  ELSE IF reply.kind = "read"
    THEN [tel |-> FailSpan(tel, "service-b: get-temp-by-city"),
          tempC |-> Zero64,
          err |-> Errorf("failed to read weatherapi response body: %w", -1,
                         reply.err.text)]
  ELSE IF reply.status # StatusOK
    THEN [tel |-> FailSpan(tel, "service-b: get-temp-by-city"),
          tempC |-> Zero64,
          err |-> Errorf("weatherapi error: %d - %s", reply.status,
                         reply.body.t)]
  ELSE getTempByCityDecoded(
         decodeWeatherResponse(tel, SpanContext(tel, "service-b: get-temp-by-city"),
                               reply.body))

fahrenheitMultiplier == ParseFloat(Dec(FALSE, 18, 1))
fahrenheitBase == ParseFloat(Dec(FALSE, 32, 0))
kelvinBase == ParseFloat(Dec(FALSE, 27315, 2))

\* tempF := tempC*fahrenheitMultiplier + fahrenheitBase: the Go specification
\* lets a build fuse x*y + z into one rounding, so both results are outcomes.
Fahrenheit(tempC, fused) ==
  IF fused THEN FMA(tempC, fahrenheitMultiplier, fahrenheitBase)
           ELSE FAdd(FMul(tempC, fahrenheitMultiplier), fahrenheitBase)

\* A conversion to kelvin by the whole number 273.
KelvinWhole(tempC) == FAdd(tempC, ParseFloat(Dec(FALSE, 273, 0)))

\* tempK := tempC + kelvinBase
Kelvin(tempC) == FAdd(tempC, kelvinBase)

convertTemperatures(tel, ctx, tempC, fused) ==
  [tel |-> OkSpan(TracerStart(tel, "service-b: convert-temperatures", ctx),
                  "service-b: convert-temperatures"),
   tempF |-> Fahrenheit(tempC, fused), tempK |-> Kelvin(tempC)]

\* r.URL.Query().Get("cep"): "" for a parameter that is not there.
QueryGet(query) == IF query.present THEN query.v ELSE <<>>

\* What a piece of the Back Service handler leaves: the spans, the writes to
\* the ResponseWriter, where the handler is ("city": blocked on the City
\* Resolver, "temp": on the Temperature Resolver, "done": returned) and the
\* city it holds.
BackFails(tel, w, msg, code) ==
  [tel |-> FailSpan(tel, "service-b: handle-weather"),
   w |-> WriteError(w, msg, code), pc |-> "done", city |-> ""]

WeatherHandlerStarted(tel, cep) ==
  IF ~isValidCEP(cep)
    THEN BackFails(tel, <<>>, Str("invalid zipcode"), StatusUnprocessableEntity)
    ELSE [tel |-> TracerStart(tel, "service-b: get-city-by-cep",
                              SpanContext(tel, "service-b: handle-weather")),
          w |-> <<>>, pc |-> "city", city |-> ""]

\* WeatherHandler from its entry to the call of the City Resolver.
WeatherHandler(tel, rctx, hdr, query) ==
  WeatherHandlerStarted(
    TracerStart(tel, "service-b: handle-weather", Extract(rctx, hdr)),
    QueryGet(query))

\* WeatherHandler going on to the Temperature Resolver after a failed city
\* lookup that was not a not-found.
WeatherHandlerCityNoReturn(w, r, keyOK) ==
  IF r.err # NoErr /\ IsErrNotFound(r.err)
    THEN BackFails(r.tel, w, ErrorText(r.err), StatusNotFound)
  ELSE IF ~keyOK
    THEN BackFails(FailSpan(TracerStart(r.tel, "service-b: get-temp-by-city",
                                        SpanContext(r.tel, "service-b: handle-weather")),
                            "service-b: get-temp-by-city"),
                   w, Str("internal error"), StatusInternalServerError)
  ELSE [tel |-> TracerStart(r.tel, "service-b: get-temp-by-city",
                            SpanContext(r.tel, "service-b: handle-weather")),
        w |-> w, pc |-> "temp", city |-> r.city]

\* WeatherHandler from the return of getCityByCEP to the call of the
\* Temperature Resolver; keyOK: the request URL built with the API key parses.
WeatherHandlerCity(w, r, keyOK) ==
  IF r.err # NoErr
    THEN IF IsErrNotFound(r.err)
           THEN BackFails(r.tel, w, ErrorText(r.err), StatusNotFound)
           ELSE BackFails(r.tel, w, Str("internal error"),
                          StatusInternalServerError)
  ELSE IF ~keyOK
    THEN BackFails(FailSpan(TracerStart(r.tel, "service-b: get-temp-by-city",
                                        SpanContext(r.tel, "service-b: handle-weather")),
                            "service-b: get-temp-by-city"),
                   w, Str("internal error"), StatusInternalServerError)
  ELSE [tel |-> TracerStart(r.tel, "service-b: get-temp-by-city",
                            SpanContext(r.tel, "service-b: handle-weather")),
        w |-> w, pc |-> "temp", city |-> r.city]

WeatherHandlerRespond(w, cityName, tempC, c) ==
  [tel |-> OkSpan(c.tel, "service-b: handle-weather"),
   w |-> WriteJSON(w, TempResponse(cityName, tempC, c.tempF, c.tempK), StatusOK),
   pc |-> "done", city |-> cityName]

\* WeatherHandler answering a failed temperature lookup with the text of the
\* error it got.
WeatherHandlerTempPassThrough(w, cityName, r, fused) ==
  IF r.err # NoErr
    THEN BackFails(r.tel, w, ErrorText(r.err), StatusInternalServerError)
    ELSE WeatherHandlerRespond(w, cityName, r.tempC,
           convertTemperatures(r.tel, SpanContext(r.tel, "service-b: handle-weather"),
                               r.tempC, fused))

\* WeatherHandler from the return of getTempByCity to its own return.
WeatherHandlerTemp(w, cityName, r, fused) ==
  IF r.err # NoErr
    THEN BackFails(r.tel, w, Str("internal error"), StatusInternalServerError)
    ELSE WeatherHandlerRespond(w, cityName, r.tempC,
           convertTemperatures(r.tel, SpanContext(r.tel, "service-b: handle-weather"),
                               r.tempC, fused))

(***************************************************************************)
(* PART 5 - the Front Service (instrumented handler).                      *)
(***************************************************************************)

\* A request body: a JSON object with its cep member, the JSON value null,
\* text that is not JSON, or nothing.
CEPObject(cep) == [t |-> "object", cep |-> cep]
CEPText(t) == [t |-> t, cep |-> JAbsent]

\* json.NewDecoder(r.Body).Decode into CEPRequest{CEP `cep`}
DecodeCEPRequest(body) ==
  IF body.t = "null" THEN [ok |-> TRUE, CEP |-> <<>>]
  ELSE IF body.t # "object" THEN [ok |-> FALSE, CEP |-> <<>>]
  ELSE IF body.cep.j = "str" THEN [ok |-> TRUE, CEP |-> body.cep.s]
  ELSE IF body.cep.j \in {"absent", "null"} THEN [ok |-> TRUE, CEP |-> <<>>]
  ELSE [ok |-> FALSE, CEP |-> <<>>]

\* validateCEP without the format check.
validateCEPDecodedNoFormat(tel, req) ==
  IF ~req.ok
    THEN [tel |-> FailSpan(tel, "service-a: validate-cep"), CEP |-> <<>>,
          err |-> Errorf("invalid request", -1, "")]
  ELSE IF req.CEP = <<>>
    THEN [tel |-> FailSpan(tel, "service-a: validate-cep"), CEP |-> <<>>,
          err |-> Errorf("cep is required", -1, "")]
  ELSE [tel |-> OkSpan(tel, "service-a: validate-cep"), CEP |-> req.CEP,
        err |-> NoErr]

\* validateCEP returning the text it gives its span ("invalid zipcode
\* format") as the error of a malformed code.
validateCEPDecodedSpanText(tel, req) ==
  IF ~req.ok
    THEN [tel |-> FailSpan(tel, "service-a: validate-cep"), CEP |-> <<>>,
          err |-> Errorf("invalid request", -1, "")]
  ELSE IF req.CEP = <<>>
    THEN [tel |-> FailSpan(tel, "service-a: validate-cep"), CEP |-> <<>>,
          err |-> Errorf("cep is required", -1, "")]
  ELSE IF ~IsValidCEP(req.CEP)
    THEN [tel |-> FailSpan(tel, "service-a: validate-cep"), CEP |-> <<>>,
          err |-> Errorf("invalid zipcode format", -1, "")]
  ELSE [tel |-> OkSpan(tel, "service-a: validate-cep"), CEP |-> req.CEP,
        err |-> NoErr]

validateCEPDecoded(tel, req) ==
  IF ~req.ok
    THEN [tel |-> FailSpan(tel, "service-a: validate-cep"), CEP |-> <<>>,
          err |-> Errorf("invalid request", -1, "")]
  ELSE IF req.CEP = <<>>
    THEN [tel |-> FailSpan(tel, "service-a: validate-cep"), CEP |-> <<>>,
          err |-> Errorf("cep is required", -1, "")]
  ELSE IF ~IsValidCEP(req.CEP)
    THEN [tel |-> FailSpan(tel, "service-a: validate-cep"), CEP |-> <<>>,
          err |-> Errorf("invalid zipcode", -1, "")]
  ELSE [tel |-> OkSpan(tel, "service-a: validate-cep"), CEP |-> req.CEP,
        err |-> NoErr]

validateCEP(tel, ctx, body) ==
  validateCEPDecoded(TracerStart(tel, "service-a: validate-cep", ctx),
                     DecodeCEPRequest(body))

\* json.NewDecoder(resp.Body).Decode into WeatherResponse: members that are
\* not there leave zero values, members it does not know are skipped.
DecodeWeatherResponse(body) ==
  IF body.t = "weather"
    THEN [err |-> NoErr,
          weather |-> TempResponse(body.city, ParseFloat(body.temp_C),
                                   ParseFloat(body.temp_F),
                                   ParseFloat(body.temp_K))]
  ELSE IF body.t \in {"error", "null"}
    THEN [err |-> NoErr, weather |-> TempResponse("", Zero64, Zero64, Zero64)]
  ELSE IF body.t = "empty"
    THEN [err |-> Errorf("EOF", -1, ""),
          weather |-> TempResponse("", Zero64, Zero64, Zero64)]
  ELSE IF body.t = "badtype"
    THEN [err |-> Errorf("json: cannot unmarshal into Go struct field", -1,
                         "WeatherResponse.temp_C of type float64"),
          weather |-> TempResponse("", Zero64, Zero64, Zero64)]
  ELSE [err |-> Errorf("invalid character looking for beginning of value", -1, ""),
        weather |-> TempResponse("", Zero64, Zero64, Zero64)]

callServiceBFails(tel, err) ==
  [tel |-> FailSpan(tel, "service-a: call-service-b"),
   weather |-> TempResponse("", Zero64, Zero64, Zero64), err |-> err]

callServiceBDecoded(tel, d) ==
  IF d.err # NoErr THEN callServiceBFails(tel, d.err)
  ELSE [tel |-> OkSpan(tel, "service-a: call-service-b"), weather |-> d.weather,
        err |-> NoErr]

\* callServiceB with 404 and 422 answered like any other status.
callServiceBUnmapped(tel, reply) ==
  IF reply.kind = "transport" THEN callServiceBFails(tel, reply.err)
  ELSE IF reply.status # StatusOK
    THEN callServiceBFails(tel, Errorf("service-b returned status %d",
                                       reply.status, ""))
  ELSE callServiceBDecoded(tel, DecodeWeatherResponse(reply.body))

\* callServiceB without the check that any other status is 200.
callServiceBNoStatusCheck(tel, reply) ==
  IF reply.kind = "transport" THEN callServiceBFails(tel, reply.err)
  ELSE IF reply.status = StatusNotFound
    THEN callServiceBFails(tel, Errorf("cannot find zipcode", -1, ""))
  ELSE IF reply.status = StatusUnprocessableEntity
    THEN callServiceBFails(tel, Errorf("invalid zipcode", -1, ""))
  ELSE callServiceBDecoded(tel, DecodeWeatherResponse(reply.body))

\* callServiceB from the return of client.Do on.
callServiceB(tel, reply) ==
  IF reply.kind = "transport" THEN callServiceBFails(tel, reply.err)
  ELSE IF reply.status = StatusNotFound
    THEN callServiceBFails(tel, Errorf("cannot find zipcode", -1, ""))
  ELSE IF reply.status = StatusUnprocessableEntity
    THEN callServiceBFails(tel, Errorf("invalid zipcode", -1, ""))
  ELSE IF reply.status # StatusOK
    THEN callServiceBFails(tel, Errorf("service-b returned status %d",
                                       reply.status, ""))
  ELSE callServiceBDecoded(tel, DecodeWeatherResponse(reply.body))

\* What a piece of the Front Service handler leaves: the spans, the writes,
\* where the handler is ("call": blocked on the Back Service, "done":
\* returned) and the headers of the request it sent.
FrontFails(tel, w, msg, code) ==
  [tel |-> FailSpan(tel, "service-a: handle-cep"),
   w |-> WriteError(w, msg, code), pc |-> "done", hdr |-> 0, cep |-> <<>>]

\* HandleCEP matching the not-found error by the text of the client-facing
\* message ("can not find zipcode") instead of the text callServiceB returns.
HandleCEPCalledOtherText(w, r) ==
  IF r.err # NoErr
    THEN IF ErrorText(r.err) = Str("can not find zipcode")
           THEN FrontFails(r.tel, w, Str("can not find zipcode"), StatusNotFound)
         ELSE IF ErrorText(r.err) = Str("invalid zipcode")
           THEN FrontFails(r.tel, w, Str("invalid zipcode"),
                           StatusUnprocessableEntity)
         ELSE FrontFails(r.tel, w, Str("failed to get weather data"),
                         StatusInternalServerError)
    ELSE [tel |-> OkSpan(r.tel, "service-a: handle-cep"),
          w |-> WriteJSON(w, TempResponse(r.weather.City, r.weather.TempC,
                                          r.weather.TempF, r.weather.TempK),
                          StatusOK),
          pc |-> "done", hdr |-> 0, cep |-> <<>>]

\* HandleCEP from the return of callServiceB to its own return.
HandleCEPCalled(w, r) ==
  IF r.err # NoErr
    THEN IF ErrorText(r.err) = Str("cannot find zipcode")
           THEN FrontFails(r.tel, w, Str("can not find zipcode"), StatusNotFound)
         ELSE IF ErrorText(r.err) = Str("invalid zipcode")
           THEN FrontFails(r.tel, w, Str("invalid zipcode"),
                           StatusUnprocessableEntity)
         ELSE FrontFails(r.tel, w, Str("failed to get weather data"),
                         StatusInternalServerError)
    ELSE [tel |-> OkSpan(r.tel, "service-a: handle-cep"),
          w |-> WriteJSON(w, TempResponse(r.weather.City, r.weather.TempC,
                                          r.weather.TempF, r.weather.TempK),
                          StatusOK),
          pc |-> "done", hdr |-> 0, cep |-> <<>>]

\* callServiceB sending its request without the trace context in the headers.
callServiceBStartedNoInject(tel, w, cep, urlOK) ==
  IF ~urlOK
    THEN HandleCEPCalled(w, callServiceBFails(tel,
           Errorf("failed to create request: %w", -1, "parse error")))
    ELSE [tel |-> tel, w |-> w, pc |-> "call", hdr |-> 0, cep |-> cep]

\* callServiceB from its entry to client.Do; urlOK: ServiceBURL+"?cep="+cep
\* parses as a URL.
callServiceBStarted(tel, w, cep, urlOK) ==
  IF ~urlOK
    THEN HandleCEPCalled(w, callServiceBFails(tel,
           Errorf("failed to create request: %w", -1, "parse error")))
    ELSE [tel |-> tel, w |-> w, pc |-> "call",
          hdr |-> Inject(SpanContext(tel, "service-a: call-service-b")),
          cep |-> cep]

HandleCEPValidated(v, urlOK) ==
  IF v.err # NoErr
    THEN IF ErrorText(v.err) = Str("invalid request")
           THEN FrontFails(v.tel, <<>>, Str("invalid request"), StatusBadRequest)
         ELSE IF ErrorText(v.err) = Str("cep is required")
           THEN FrontFails(v.tel, <<>>, Str("cep is required"), StatusBadRequest)
         ELSE IF ErrorText(v.err) = Str("invalid zipcode")
           THEN FrontFails(v.tel, <<>>, Str("invalid zipcode"),
                           StatusUnprocessableEntity)
         ELSE [tel |-> End(RecordError(v.tel, "service-a: handle-cep"),
                           "service-a: handle-cep"),
               w |-> <<>>, pc |-> "done", hdr |-> 0, cep |-> <<>>]
    ELSE callServiceBStarted(
           TracerStart(v.tel, "service-a: call-service-b",
                       SpanContext(v.tel, "service-a: handle-cep")),
           <<>>, v.CEP, urlOK)

HandleCEPStarted(tel, body, urlOK) ==
  HandleCEPValidated(
    validateCEP(tel, SpanContext(tel, "service-a: handle-cep"), body), urlOK)

\* HandleCEP from its entry to client.Do.
HandleCEP(tel, rctx, body, urlOK) ==
  HandleCEPStarted(TracerStart(tel, "service-a: handle-cep", rctx), body, urlOK)

(***************************************************************************)
(* PART 5b - the Front Service without instrumentation (service_a/main.go):*)
(* the same request handled by handleCEP and callServiceB of package main. *)
(* What a piece of it leaves is [w, pc]: its writes and where it is.       *)
(***************************************************************************)

\* cepRegex and isValidCEP of package main.
cepRegexPlain == MustCompile(TRUE, Digits, 8, TRUE)

isValidCEPPlain(cep) == MatchString(cepRegexPlain, cep)

writeJSON(w, data, code) == Append(w, Response(code, JSONEncode(data)))

writeError(w, msg, code) == writeJSON(w, ErrorResponse(msg), code)

\* callServiceB of package main from the return of client.Get on: only 404
\* is told from the other statuses, and the body of any other reply is
\* decoded.
callServiceBPlain(reply) ==
  IF reply.kind = "transport"
    THEN [weather |-> TempResponse("", Zero64, Zero64, Zero64), err |-> reply.err]
  ELSE IF reply.status = StatusNotFound
    THEN [weather |-> TempResponse("", Zero64, Zero64, Zero64),
          err |-> Errorf("cannot find zipcode", -1, "")]
  ELSE DecodeWeatherResponse(reply.body)

\* handleCEP from the return of callServiceB to its own return.
handleCEPCalled(w, r) ==
  IF r.err # NoErr
    THEN IF ErrorText(r.err) = Str("cannot find zipcode")
           THEN [w |-> writeError(w, Str("can not find zipcode"), StatusNotFound),
                 pc |-> "done"]
           ELSE [w |-> writeError(w, Str("failed to get weather data"),
                                  StatusInternalServerError),
                 pc |-> "done"]
    ELSE [w |-> writeJSON(w, TempResponse(r.weather.City, r.weather.TempC,
                                          r.weather.TempF, r.weather.TempK),
                          StatusOK),
          pc |-> "done"]

\* handleCEP from its decoded request to client.Get, which fails at once on
\* a URL that does not parse.
handleCEPDecoded(req, urlOK) ==
  IF ~req.ok
    THEN [w |-> writeError(<<>>, Str("invalid request"), StatusBadRequest),
          pc |-> "done"]
  ELSE IF req.CEP = <<>>
    THEN [w |-> writeError(<<>>, Str("cep is required"), StatusBadRequest),
          pc |-> "done"]
  ELSE IF ~isValidCEPPlain(req.CEP)
    THEN [w |-> writeError(<<>>, Str("invalid zipcode"),
                           StatusUnprocessableEntity),
          pc |-> "done"]
  ELSE IF ~urlOK
    THEN handleCEPCalled(<<>>, callServiceBPlain(
           Transport(Errorf("Get %q: %s", -1, "parse error"))))
  ELSE [w |-> <<>>, pc |-> "call"]

handleCEP(body, urlOK) == handleCEPDecoded(DecodeCEPRequest(body), urlOK)

(***************************************************************************)
(* PART 6 - one request through the chain.                                 *)
(***************************************************************************)

VARIABLES
  serviceBURLOK,  \* SERVICE_B_URL gives request URLs that parse
  apiKeyOK,       \* WEATHERAPI_KEY gives request URLs that parse
  fused,          \* the build fuses tempC*1.8 + 32 into one rounding
  pc,             \* "idle", "call", "city", "temp", "resume", "done"
  entry,          \* the service the client called: "front" or "direct" (Back)
  clientHdr,      \* the trace id in the headers of the client (0: none)
  reqBody,        \* the body posted to the Front Service
  reqQuery,       \* the query the Back Service received
  hdrAB,          \* the trace id in the headers of the Front's call (0: none)
  link,           \* what became of the Front's call
  downstream,     \* what client.Do returned to the Front Service
  cityReply,      \* what the City Resolver call returned
  tempReply,      \* what the Temperature Resolver call returned
  city,           \* the city the Back Service holds
  aw,             \* the writes of HandleCEP to its ResponseWriter
  bw,             \* the writes of WeatherHandler to its ResponseWriter
  tel,            \* the spans of both services
  calls,          \* outbound calls issued: to the Back, City, Temperature
  plain,          \* the same request in the Front Service of package main
  probe,          \* a string under the validators and what they said of it
  reqs,           \* the requests in flight at once, each with its own locals
  boot            \* a process of either service from its start

\* The variables of a request chain, and the ones of the other machines.
chain ==
  <<serviceBURLOK, apiKeyOK, fused, pc, entry, clientHdr, reqBody, reqQuery,
    hdrAB, link, downstream, cityReply, tempReply, city, aw, bw, tel, calls,
    plain>>
aside == <<probe, reqs, boot>>
vars == <<chain, aside>>

NoReply ==
  [kind |-> "none", status |-> 0, body |-> [t |-> "none"], err |-> NoErr]
NoQuery == [present |-> FALSE, v |-> <<>>]

\* The trace id a client that is itself traced sends.
ClientTrace == 7
ClientHeaders == {0, ClientTrace}

FrontBodies ==
  {CEPObject(JStr(c)) : c \in CepSamples}
    \cup {CEPObject(JAbsent), CEPObject(JNull),
          CEPObject(JNum(Dec(FALSE, 87043480, 0))),
          CEPText("null"), CEPText("garbage"), CEPText("empty")}

BackQueries == {[present |-> TRUE, v |-> c] : c \in CepSamples} \cup {NoQuery}

TimeoutErr == Errorf("Get %q: %s", -1, "context deadline exceeded")
RefusedErr == Errorf("Get %q: %s", -1, "connection refused")
BodyErr == Errorf("unexpected EOF", -1, "")

\* Replies of the City Resolver.
Localidades ==
  {JAbsent, JNull, JStr(""), JStr("Maringá"), JStr("São Paulo")}
Erros ==
  {JAbsent, JStr("true"), JStr(""), JStr("false"), JBool(TRUE)}
CityReplies ==
  {Transport(TimeoutErr), ReadFailure(BodyErr),
   Reply(StatusOK, ViaCEPText("null")),
   Reply(StatusBadRequest, ViaCEPText("garbage")),
   Reply(StatusInternalServerError, ViaCEPText("garbage"))}
    \cup {Reply(StatusOK, ViaCEPObject(l, e)) : l \in Localidades, e \in Erros}

\* Replies of the Temperature Resolver.
TempReadings ==
  {Dec(FALSE, 285, 1), Dec(FALSE, 0, 0), Dec(TRUE, 32, 1), Dec(FALSE, 366, 1)}
TempReplies ==
  {Transport(TimeoutErr), ReadFailure(BodyErr),
   Reply(StatusOK, WeatherText("garbage")),
   Reply(StatusOK, WeatherObject(JAbsent)),
   Reply(StatusOK, WeatherObject(JStr("28.5"))),
   Reply(StatusBadRequest, WeatherObject(JAbsent)),
   Reply(StatusInternalServerError, WeatherText("garbage")),
   Reply(StatusInternalServerError, WeatherObject(JNum(Dec(FALSE, 285, 1))))}
    \cup {Reply(StatusOK, WeatherObject(JNum(r))) : r \in TempReadings}

\* Answers of whatever else listens at SERVICE_B_URL.
OtherStatuses ==
  {StatusOK, StatusBadRequest, StatusNotFound, StatusUnprocessableEntity,
   StatusInternalServerError, 503}
OtherBodies ==
  {ErrorBody(Str("can not find zipcode")), ErrorBody(Str("invalid zipcode")),
   ErrorBody(Str("internal error")), OtherBody("garbage"), OtherBody("badtype"),
   OtherBody("empty"),
   WeatherBody("Curitiba", Dec(FALSE, 205, 1), Dec(FALSE, 689, 1),
               Dec(FALSE, 29365, 2))}

NoProbe == [cep |-> <<>>, stage |-> "none", front |-> FALSE, back |-> FALSE]

\* The requests served at once, and the locals of one of them before it
\* arrives.
Requests == {"r1", "r2"}
NewRequest ==
  [pc |-> "idle", body |-> CEPText("none"), query |-> NoQuery, hdr |-> 0,
   downstream |-> NoReply, cityReply |-> NoReply, tempReply |-> NoReply,
   city |-> "", aw |-> <<>>, bw |-> <<>>,
   tel |-> [spans |-> <<>>, next |-> 1], met |-> FALSE]
NoRequests == [r \in Requests |-> NewRequest]

\* An environment variable: not set, or set to a value.
Unset == [set |-> FALSE, v |-> ""]
Set(v) == [set |-> TRUE, v |-> v]

NoBoot ==
  [service |-> "none", env |-> [n \in {"SERVICE_B_URL", "WEATHERAPI_KEY", "PORT"} |-> Unset],
   pc |-> "none", serviceBURL |-> "", weatherAPIKey |-> "", port |-> "",
   served |-> FALSE]

InitChain ==
  /\ serviceBURLOK \in BOOLEAN
  /\ apiKeyOK \in BOOLEAN
  /\ fused \in BOOLEAN
  /\ pc = "idle"
  /\ entry = "none"
  /\ clientHdr = 0
  /\ reqBody = CEPText("none")
  /\ reqQuery = NoQuery
  /\ hdrAB = 0
  /\ link = "none"
  /\ downstream = NoReply
  /\ cityReply = NoReply
  /\ tempReply = NoReply
  /\ city = ""
  /\ aw = <<>>
  /\ bw = <<>>
  /\ tel = [spans |-> <<>>, next |-> 1]
  /\ calls = [back |-> 0, city |-> 0, temp |-> 0]
  /\ plain = [w |-> <<>>, pc |-> "idle"]

Init ==
  /\ InitChain
  /\ probe = NoProbe
  /\ reqs = NoRequests
  /\ boot = NoBoot

\* A piece of HandleCEP has run and left r.
FrontRuns(r) ==
  /\ tel' = r.tel
  /\ aw' = r.w
  /\ pc' = r.pc
  /\ hdrAB' = IF r.pc = "call" THEN r.hdr ELSE hdrAB
  /\ reqQuery' = IF r.pc = "call" THEN [present |-> TRUE, v |-> r.cep]
                                  ELSE reqQuery
  /\ calls' = [calls EXCEPT !.back = IF r.pc = "call" THEN @ + 1 ELSE @]

\* A piece of WeatherHandler has run and left r; when it has returned, the
\* Front Service that called it reads what it wrote.
BackRuns(r, caller) ==
  /\ tel' = r.tel
  /\ bw' = r.w
  /\ city' = r.city
  /\ pc' = IF r.pc # "done" THEN r.pc
           ELSE IF caller = "front" THEN "resume" ELSE "done"
  /\ downstream' = IF r.pc = "done" /\ caller = "front"
                     THEN Reply(Served(r.w).status, Served(r.w).body)
                     ELSE downstream
  /\ calls' = [calls EXCEPT !.city = IF r.pc = "city" THEN @ + 1 ELSE @,
                            !.temp = IF r.pc = "temp" THEN @ + 1 ELSE @]

\* A client posts body to the Front Service: HandleCEP runs to its call of
\* the Back Service, or to its return.
PostFront(body, h) ==
  /\ pc = "idle"
  /\ entry' = "front"
  /\ clientHdr' = h
  /\ reqBody' = body
  /\ FrontRuns(HandleCEP(ServerTel(tel, h), ServerContext(tel, h), body,
                         serviceBURLOK))
  /\ UNCHANGED <<serviceBURLOK, apiKeyOK, fused, link, downstream, cityReply,
                 tempReply, city, bw>>
  /\ plain' = handleCEP(body, serviceBURLOK)
  /\ UNCHANGED aside

\* A client sends GET /?cep=... to the Back Service itself.
GetBack(query, h) ==
  /\ pc = "idle"
  /\ entry' = "direct"
  /\ clientHdr' = h
  /\ reqQuery' = query
  /\ BackRuns(WeatherHandler(ServerTel(tel, h), ServerContext(tel, h), h, query),
              "direct")
  /\ UNCHANGED <<serviceBURLOK, apiKeyOK, fused, reqBody, hdrAB, link,
                 cityReply, tempReply, aw>>
  /\ UNCHANGED plain
  /\ UNCHANGED aside

\* The Front's call reaches the Back Service: WeatherHandler runs to its call
\* of the City Resolver, or to its return.
DeliverToBack ==
  /\ pc = "call"
  /\ link' = "delivered"
  /\ BackRuns(WeatherHandler(ServerTel(tel, hdrAB), ServerContext(tel, hdrAB),
                             hdrAB, reqQuery),
              "front")
  /\ UNCHANGED <<serviceBURLOK, apiKeyOK, fused, entry, clientHdr, reqBody,
                 reqQuery, hdrAB, cityReply, tempReply, aw>>
  /\ UNCHANGED plain
  /\ UNCHANGED aside

\* The Front's call fails in transport: refused, or over its 5 s timeout.
CallFails(err) ==
  /\ pc = "call"
  /\ link' = "transport"
  /\ downstream' = Transport(err)
  /\ pc' = "resume"
  /\ UNCHANGED <<serviceBURLOK, apiKeyOK, fused, entry, clientHdr, reqBody,
                 reqQuery, hdrAB, cityReply, tempReply, city, aw, bw, tel,
                 calls>>
  /\ UNCHANGED plain
  /\ UNCHANGED aside

\* Something else answers at SERVICE_B_URL.
OtherAnswers(status, body) ==
  /\ pc = "call"
  /\ link' = "other"
  /\ downstream' = Reply(status, body)
  /\ pc' = "resume"
  /\ UNCHANGED <<serviceBURLOK, apiKeyOK, fused, entry, clientHdr, reqBody,
                 reqQuery, hdrAB, cityReply, tempReply, city, aw, bw, tel,
                 calls>>
  /\ UNCHANGED plain
  /\ UNCHANGED aside

\* The City Resolver call returns: getCityByCEP finishes and WeatherHandler
\* runs to its call of the Temperature Resolver, or to its return.
CityResolverReplies(reply) ==
  /\ pc = "city"
  /\ cityReply' = reply
  /\ BackRuns(WeatherHandlerCity(bw, getCityByCEP(tel, reply), apiKeyOK), entry)
  /\ UNCHANGED <<serviceBURLOK, apiKeyOK, fused, entry, clientHdr, reqBody,
                 reqQuery, hdrAB, link, tempReply, aw>>
  /\ UNCHANGED plain
  /\ UNCHANGED aside

\* The Temperature Resolver call returns: getTempByCity finishes and
\* WeatherHandler runs to its return.
TempResolverReplies(reply) ==
  /\ pc = "temp"
  /\ tempReply' = reply
  /\ BackRuns(WeatherHandlerTemp(bw, city, getTempByCity(tel, reply), fused),
              entry)
  /\ UNCHANGED <<serviceBURLOK, apiKeyOK, fused, entry, clientHdr, reqBody,
                 reqQuery, hdrAB, link, cityReply, aw>>
  /\ UNCHANGED plain
  /\ UNCHANGED aside

\* client.Do returns to the Front Service: callServiceB finishes and
\* HandleCEP runs to its return.
HandleCEPResumes ==
  /\ pc = "resume"
  /\ FrontRuns(HandleCEPCalled(aw, callServiceB(tel, downstream)))
  /\ UNCHANGED <<serviceBURLOK, apiKeyOK, fused, entry, clientHdr, reqBody,
                 link, downstream, cityReply, tempReply, city, bw>>
  /\ plain' = handleCEPCalled(plain.w, callServiceBPlain(downstream))
  /\ UNCHANGED aside

Next ==
  \/ \E body \in FrontBodies, h \in ClientHeaders : PostFront(body, h)
  \/ \E query \in BackQueries, h \in ClientHeaders : GetBack(query, h)
  \/ DeliverToBack
  \/ \E err \in {TimeoutErr, RefusedErr} : CallFails(err)
  \/ \E status \in OtherStatuses, body \in OtherBodies : OtherAnswers(status, body)
  \/ \E reply \in CityReplies : CityResolverReplies(reply)
  \/ \E reply \in TempReplies : TempResolverReplies(reply)
  \/ HandleCEPResumes

Spec == Init /\ [][Next]_vars

(***************************************************************************)
(* PART 6b - the validators as pure functions: a string is typed character *)
(* by character and both validators are applied to it.                     *)
(***************************************************************************)

MaxCepLen == 9
ProbeChars == {"7", "-", "\n"}

\* The request chain at rest.
ChainAtRest == InitChain /\ serviceBURLOK /\ apiKeyOK /\ ~fused

InitValidator ==
  /\ ChainAtRest
  /\ reqs = NoRequests
  /\ boot = NoBoot
  /\ \E cep \in CepSamples :
       probe = [cep |-> cep, stage |-> "typed", front |-> FALSE, back |-> FALSE]

\* One more character of the argument.
Type(ch) ==
  /\ probe.stage = "typed"
  /\ Len(probe.cep) < MaxCepLen
  /\ probe' = [probe EXCEPT !.cep = Append(@, ch)]
  /\ UNCHANGED <<chain, reqs, boot>>

\* IsValidCEP(cep) of the Front Service and isValidCEP(cep) of the Back.
Validate ==
  /\ probe.stage = "typed"
  /\ probe' = [probe EXCEPT !.stage = "validated",
                            !.front = IsValidCEP(probe.cep),
                            !.back = isValidCEP(probe.cep)]
  /\ UNCHANGED <<chain, reqs, boot>>

NextValidator ==
  \/ \E ch \in ProbeChars : Type(ch)
  \/ Validate

SpecValidator == InitValidator /\ [][NextValidator]_vars

(***************************************************************************)
(* PART 6c - requests served at once.  net/http runs each request in its   *)
(* own goroutine; the handlers keep what they compute in local variables   *)
(* and read the Handler fields only.  Each request goes through the Front  *)
(* Service and the Back Service, their steps interleaved in any order.     *)
(***************************************************************************)

TwoBodies ==
  {CEPObject(JStr(CepMaringa)), CEPObject(JStr(CepShort))}
TwoCityReplies ==
  {Reply(StatusOK, ViaCEPObject(JStr("Maringá"), JAbsent)),
   Reply(StatusOK, ViaCEPObject(JStr("São Paulo"), JAbsent)),
   Reply(StatusOK, ViaCEPObject(JAbsent, JStr("true")))}
TwoTempReplies ==
  {Reply(StatusOK, WeatherObject(JNum(Dec(FALSE, 285, 1)))),
   Transport(TimeoutErr)}

\* The city a goroutine read from the one Handler field all requests share.
SharedCity(rs, r) == rs["r1"].city

\* city, the local variable of WeatherHandler in the goroutine of request r.
LocalCity(rs, r) == rs[r].city

\* Another request is between its arrival and its response.
InFlight(rs, r) ==
  \E q \in Requests \ {r} : rs[q].pc \notin {"idle", "done"}

\* A piece of HandleCEP has run for request q and left res.
FrontRan(q, res) ==
  [q EXCEPT !.tel = res.tel, !.aw = res.w, !.pc = res.pc,
            !.hdr = IF res.pc = "call" THEN res.hdr ELSE @,
            !.query = IF res.pc = "call" THEN [present |-> TRUE, v |-> res.cep]
                                         ELSE @]

\* A piece of WeatherHandler has run for request q and left res.
BackRan(q, res) ==
  [q EXCEPT !.tel = res.tel, !.bw = res.w, !.city = res.city,
            !.pc = IF res.pc # "done" THEN res.pc ELSE "resume",
            !.downstream = IF res.pc = "done"
                             THEN Reply(Served(res.w).status, Served(res.w).body)
                             ELSE @]

\* Request r steps to q.
Steps(r, q) ==
  /\ reqs' = [reqs EXCEPT ![r] = [q EXCEPT !.met = @ \/ InFlight(reqs, r)]]
  /\ UNCHANGED <<chain, probe, boot>>

InitTwo ==
  /\ ChainAtRest
  /\ probe = NoProbe
  /\ reqs = NoRequests
  /\ boot = NoBoot

PostFrontOf(r, body) ==
  /\ reqs[r].pc = "idle"
  /\ Steps(r, FrontRan([reqs[r] EXCEPT !.body = body],
                       HandleCEP(ServerTel(reqs[r].tel, 0),
                                 ServerContext(reqs[r].tel, 0), body,
                                 serviceBURLOK)))

DeliverToBackOf(r) ==
  /\ reqs[r].pc = "call"
  /\ Steps(r, BackRan(reqs[r],
                      WeatherHandler(ServerTel(reqs[r].tel, reqs[r].hdr),
                                     ServerContext(reqs[r].tel, reqs[r].hdr),
                                     reqs[r].hdr, reqs[r].query)))

CityResolverRepliesTo(r, reply) ==
  /\ reqs[r].pc = "city"
  /\ Steps(r, BackRan([reqs[r] EXCEPT !.cityReply = reply],
                      WeatherHandlerCity(reqs[r].bw,
                                         getCityByCEP(reqs[r].tel, reply),
                                         apiKeyOK)))

TempResolverRepliesTo(r, reply) ==
  /\ reqs[r].pc = "temp"
  /\ Steps(r, BackRan([reqs[r] EXCEPT !.tempReply = reply],
                      WeatherHandlerTemp(reqs[r].bw, LocalCity(reqs, r),
                                         getTempByCity(reqs[r].tel, reply),
                                         fused)))

HandleCEPResumesOf(r) ==
  /\ reqs[r].pc = "resume"
  /\ Steps(r, FrontRan(reqs[r],
                       HandleCEPCalled(reqs[r].aw,
                                       callServiceB(reqs[r].tel,
                                                    reqs[r].downstream))))

NextTwo ==
  \E r \in Requests :
    \/ \E body \in TwoBodies : PostFrontOf(r, body)
    \/ DeliverToBackOf(r)
    \/ \E reply \in TwoCityReplies : CityResolverRepliesTo(r, reply)
    \/ \E reply \in TwoTempReplies : TempResolverRepliesTo(r, reply)
    \/ HandleCEPResumesOf(r)

SpecTwo == InitTwo /\ [][NextTwo]_vars

(***************************************************************************)
(* PART 6d - the start of a process: main of service_a/cmd/server and of   *)
(* service_b/cmd/server, from the environment to serving or to its end.    *)
(***************************************************************************)

\* os.Getenv: the value, and "" for a variable that is not set.
Getenv(env, name) == IF env[name].set THEN env[name].v ELSE ""

EnvOf(url, key, port) ==
  [n \in {"SERVICE_B_URL", "WEATHERAPI_KEY", "PORT"} |->
     IF n = "SERVICE_B_URL" THEN url ELSE IF n = "WEATHERAPI_KEY" THEN key ELSE port]

ServiceBURLs == {Unset, Set(""), Set("http://service-b:8081")}
WeatherAPIKeys == {Unset, Set(""), Set("k3y")}
Ports == {Unset, Set(""), Set("9090")}

\* defaultPort of either service.
defaultPort(service) == IF service = "A" THEN "8080" ELSE "8081"

InitBoot ==
  /\ ChainAtRest
  /\ probe = NoProbe
  /\ reqs = NoRequests
  /\ \E service \in {"A", "B"}, url \in ServiceBURLs, key \in WeatherAPIKeys,
        port \in Ports :
       boot = [NoBoot EXCEPT !.service = service, !.env = EnvOf(url, key, port),
                             !.pc = "start"]

Boots(b) == boot' = b /\ UNCHANGED <<chain, probe, reqs>>

\* main of the Front Service to its check of SERVICE_B_URL.
mainFrontRequired(b) ==
  IF Getenv(b.env, "SERVICE_B_URL") = ""
    THEN [b EXCEPT !.pc = "panic"]
    ELSE [b EXCEPT !.pc = "port", !.serviceBURL = Getenv(b.env, "SERVICE_B_URL")]

\* The key main of the Back Service holds after its first test: the one of
\* the environment, and the one written in the source when that is empty.
keyOrDefault(b) ==
  IF Getenv(b.env, "WEATHERAPI_KEY") = "" THEN "54619d224b96477a9d420100262101"
  ELSE Getenv(b.env, "WEATHERAPI_KEY")

\* main of the Back Service to its check of WEATHERAPI_KEY.
mainBackRequired(b) ==
  IF keyOrDefault(b) = ""
    THEN [b EXCEPT !.pc = "panic"]
    ELSE [b EXCEPT !.pc = "port", !.weatherAPIKey = keyOrDefault(b)]

\* port := os.Getenv("PORT"), defaultPort when empty.
mainPort(b) ==
  [b EXCEPT !.pc = "listen",
            !.port = IF Getenv(b.env, "PORT") = "" THEN defaultPort(b.service)
                     ELSE Getenv(b.env, "PORT")]

CheckRequiredFront ==
  /\ boot.pc = "start"
  /\ boot.service = "A"
  /\ Boots(mainFrontRequired(boot))

CheckRequiredBack ==
  /\ boot.pc = "start"
  /\ boot.service = "B"
  /\ Boots(mainBackRequired(boot))

ReadPort ==
  /\ boot.pc = "port"
  /\ Boots(mainPort(boot))

\* server.ListenAndServe binds the port, or returns its error to log.Fatalf.
ListenAndServe(bound) ==
  /\ boot.pc = "listen"
  /\ Boots([boot EXCEPT !.pc = IF bound THEN "serving" ELSE "fatal"])

\* The server hands a request to the router.
ServeRequest ==
  /\ boot.pc = "serving"
  /\ Boots([boot EXCEPT !.served = TRUE])

\* SIGTERM or an interrupt: server.Shutdown.
Shutdown ==
  /\ boot.pc = "serving"
  /\ Boots([boot EXCEPT !.pc = "stopped"])

NextBoot ==
  \/ CheckRequiredFront
  \/ CheckRequiredBack
  \/ ReadPort
  \/ \E bound \in BOOLEAN : ListenAndServe(bound)
  \/ ServeRequest
  \/ Shutdown

SpecBoot == InitBoot /\ [][NextBoot]_vars

(***************************************************************************)
(* PART 7 - the claims.                                                    *)
(***************************************************************************)

\* The single write of an error document.
OnlyError(w, code, text) == w = <<Response(code, ErrorBody(Str(text)))>>

\* A postal code of eight decimal digits.
EightDigits(cep) == Len(cep) = 8 /\ \A i \in 1..Len(cep) : cep[i] \in Digits

FrontDone == entry = "front" /\ pc = "done"

\* WeatherHandler has been entered.
BackEntered == entry = "direct" \/ link = "delivered"

\* C1: when the Back Service answers the Front Service with status 404 the
\* Front Service answers 404 {"message":"can not find zipcode"}, and with
\* status 422 it answers 422 {"message":"invalid zipcode"}: the status alone
\* decides, whatever body came with it.
C1_StatusAloneDecides ==
  (FrontDone /\ downstream.kind = "resp") =>
     /\ downstream.status = StatusNotFound
          => OnlyError(aw, StatusNotFound, "can not find zipcode")
     /\ downstream.status = StatusUnprocessableEntity
          => OnlyError(aw, StatusUnprocessableEntity, "invalid zipcode")

\* A 404 that came with a weather document is answered as not found.
C1_Witness ==
  /\ FrontDone
  /\ link = "other"
  /\ downstream.status = StatusNotFound
  /\ downstream.body.t = "weather"
  /\ OnlyError(aw, StatusNotFound, "can not find zipcode")

\* C2: the Front Service answers 200 only when the Back Service answered 200
\* with a body that decodes; any other status than 200, 404 and 422, a
\* transport failure and a body that does not decode are answered 500
\* {"message":"failed to get weather data"}.
C2_SuccessOnlyOn200 ==
  FrontDone =>
     /\ Served(aw).status = StatusOK
          => /\ downstream.kind = "resp"
             /\ downstream.status = StatusOK
             /\ downstream.body.t \in {"weather", "error", "null"}
     /\ (\/ downstream.kind = "transport"
         \/ /\ downstream.kind = "resp"
            /\ downstream.status
                 \notin {StatusOK, StatusNotFound, StatusUnprocessableEntity}
         \/ /\ downstream.kind = "resp"
            /\ downstream.status = StatusOK
            /\ downstream.body.t \in {"garbage", "badtype", "empty"})
          => OnlyError(aw, StatusInternalServerError, "failed to get weather data")

\* A 200 whose body is not JSON is answered 500.
C2_Witness ==
  /\ FrontDone
  /\ downstream.kind = "resp"
  /\ downstream.status = StatusOK
  /\ downstream.body.t = "garbage"
  /\ OnlyError(aw, StatusInternalServerError, "failed to get weather data")

\* The request body does not decode into CEPRequest.
Undecodable(body) ==
  \/ body.t \in {"garbage", "empty"}
  \/ body.t = "object" /\ body.cep.j \in {"num", "bool"}

\* The request body decodes and its cep is the empty string or not there.
NoCEP(body) ==
  \/ body.t = "null"
  \/ body.t = "object" /\ body.cep.j \in {"absent", "null"}
  \/ body.t = "object" /\ body.cep.j = "str" /\ body.cep.s = <<>>

\* The request body carries a cep that is not eight digits.
BadCEP(body) ==
  body.t = "object" /\ body.cep.j = "str" /\ body.cep.s # <<>>
    /\ ~EightDigits(body.cep.s)

\* C3: the Front Service rejects bad input before any call downstream: a
\* body that does not decode is answered 400 {"message":"invalid request"},
\* an empty or absent cep 400 {"message":"cep is required"}, a cep that is
\* not eight digits 422 {"message":"invalid zipcode"}, and in each case no
\* outbound call is ever made.
C3_RejectedBeforeCall ==
  entry = "front" =>
     /\ Undecodable(reqBody) => OnlyError(aw, StatusBadRequest, "invalid request")
     /\ NoCEP(reqBody) => OnlyError(aw, StatusBadRequest, "cep is required")
     /\ BadCEP(reqBody)
          => OnlyError(aw, StatusUnprocessableEntity, "invalid zipcode")
     /\ (Undecodable(reqBody) \/ NoCEP(reqBody) \/ BadCEP(reqBody))
          => /\ pc = "done"
             /\ calls = [back |-> 0, city |-> 0, temp |-> 0]
             /\ link = "none"

\* Eight digits and a line feed are rejected with 422 and nothing was called.
C3_Witness ==
  /\ FrontDone
  /\ reqBody = CEPObject(JStr(CepNewline))
  /\ OnlyError(aw, StatusUnprocessableEntity, "invalid zipcode")
  /\ calls.back = 0

\* C4: the Back Service validates the postal code again by the same
\* eight-digit rule as the Front Service: a code that is not eight digits,
\* a missing parameter included, is answered 422 {"message":"invalid
\* zipcode"} with no resolver called, and a code of eight digits is not
\* rejected.
C4_BackRevalidates ==
  /\ \A c \in CepSamples : isValidCEP(c) = IsValidCEP(c)
  /\ BackEntered =>
       IF EightDigits(QueryGet(reqQuery))
         THEN ~(bw # <<>> /\ Served(bw).status = StatusUnprocessableEntity)
         ELSE /\ OnlyError(bw, StatusUnprocessableEntity, "invalid zipcode")
              /\ calls.city = 0
              /\ calls.temp = 0

\* A request straight to the Back Service without the parameter gets 422.
C4_Witness ==
  /\ entry = "direct"
  /\ pc = "done"
  /\ ~reqQuery.present
  /\ OnlyError(bw, StatusUnprocessableEntity, "invalid zipcode")
  /\ calls.city = 0

\* The City Resolver answered with a JSON object.
CityObject == cityReply.kind = "resp" /\ cityReply.body.t = "object"

EmptyLocalidade(body) == body.localidade \in {JAbsent, JNull, JStr("")}

\* erro is true, as the string "true" or as the JSON boolean.
TruthyErro(body) == body.erro \in {JStr("true"), JBool(TRUE)}

\* C5: whenever the City Resolver call completes and its response has an
\* empty localidade or a truthy erro, in whatever JSON form the resolver
\* reports it, the Back Service answers 404 {"message":"can not find
\* zipcode"}, never 500 and never 200.
C5_NotFoundInAnyForm ==
  (CityObject /\ (EmptyLocalidade(cityReply.body) \/ TruthyErro(cityReply.body)))
    => OnlyError(bw, StatusNotFound, "can not find zipcode")

\* The body of the Temperature Resolver does not decode.
TempUndecodable(body) ==
  body.t # "object" \/ body.temp_c.j \notin {"num", "absent", "null"}

\* C6: for a valid postal code, a transport failure of the City Resolver
\* call, and a transport failure, a status other than 200 or an undecodable
\* body of the Temperature Resolver call, are each answered 500
\* {"message":"internal error"} and nothing else: neither the status nor the
\* body text of the collaborator reaches the caller.
C6_UpstreamFailureIs500 ==
  (\/ cityReply.kind = "transport"
   \/ tempReply.kind = "transport"
   \/ tempReply.kind = "resp" /\ tempReply.status # StatusOK
   \/ /\ tempReply.kind = "resp"
      /\ tempReply.status = StatusOK
      /\ TempUndecodable(tempReply.body))
    => /\ EightDigits(QueryGet(reqQuery))
       /\ OnlyError(bw, StatusInternalServerError, "internal error")

\* The Temperature Resolver answered 400 and the caller got 500.
C6_Witness ==
  /\ tempReply.kind = "resp"
  /\ tempReply.status = StatusBadRequest
  /\ OnlyError(bw, StatusInternalServerError, "internal error")

\* The City Resolver reports not-found by its contract: an erro that is a
\* string and not empty, or a localidade that is empty, in a body whose
\* members are strings.
NotFoundReport(reply) ==
  /\ reply.kind = "resp"
  /\ \/ reply.body.t = "null"
     \/ /\ reply.body.t = "object"
        /\ reply.body.localidade.j \in {"str", "absent", "null"}
        /\ reply.body.erro.j \in {"str", "absent", "null"}
        /\ \/ EmptyLocalidade(reply.body)
           \/ reply.body.erro.j = "str" /\ reply.body.erro.s # ""

DecLong(hi, lo, k) ==
  [neg |-> FALSE, p |-> BAdd(BMul(FromNat(hi), Pow10(8)), FromNat(lo)), k |-> k]

\* POST {"cep":"87043480"} went through both services, the City Resolver
\* returned the city Maringá and the Temperature Resolver temp_c 28.5.
MaringaRun ==
  /\ FrontDone
  /\ link = "delivered"
  /\ reqBody = CEPObject(JStr(CepMaringa))
  /\ CityObject
  /\ cityReply.body.localidade = JStr("Maringá")
  /\ city = "Maringá"
  /\ tempReply = Reply(StatusOK, WeatherObject(JNum(Dec(FALSE, 285, 1))))

BackSpanNames ==
  {"service-b: handle-weather", "service-b: get-city-by-cep",
   "service-b: decode-viacep-response", "service-b: get-temp-by-city",
   "service-b: decode-weather-response", "service-b: convert-temperatures"}

HasSpan(name) == \E i \in 1..Len(tel.spans) : tel.spans[i].name = name

Closed(s) ==
  /\ s.nEnd = 1
  /\ s.nStatus = 1
  /\ s.statusAtEnd \in {"ok", "error"}
  /\ s.statusAtEnd = s.status
  /\ s.status = "error" <=> s.errors > 0

StillOpen(s) == s.nEnd = 0 /\ s.nStatus = 0 /\ s.status = "unset"

ParentFailed(s) ==
  HasSpan(s.parent) => tel.spans[SpanIdx(tel, s.parent)].status # "ok"

\* C10: every span opened while a request is handled, in either service, is
\* closed exactly once on every way out and has exactly one status set
\* before it closes: error where its operation failed and on every response
\* that is not 200, ok otherwise.
C10_SpansClosedOnce ==
  /\ \A i \in 1..Len(tel.spans) :
       /\ Closed(tel.spans[i]) \/ StillOpen(tel.spans[i])
       /\ tel.spans[i].status = "error" => ParentFailed(tel.spans[i])
  /\ pc = "done" => \A i \in 1..Len(tel.spans) : Closed(tel.spans[i])
  /\ pc \in {"resume", "done"} =>
       \A i \in 1..Len(tel.spans) :
         tel.spans[i].name \in BackSpanNames => Closed(tel.spans[i])
  /\ FrontDone =>
       (tel.spans[SpanIdx(tel, "service-a: handle-cep")].status = "ok"
          <=> Served(aw).status = StatusOK)
  /\ (BackEntered /\ pc \in {"resume", "done"}) =>
       (tel.spans[SpanIdx(tel, "service-b: handle-weather")].status = "ok"
          <=> Served(bw).status = StatusOK)

\* The Temperature Resolver answered 500: the spans of the lookup and of both
\* handlers closed with status error, the others with ok.
C10_Witness ==
  /\ FrontDone
  /\ link = "delivered"
  /\ tempReply.kind = "resp"
  /\ tempReply.status = StatusInternalServerError
  /\ tel.spans[SpanIdx(tel, "service-b: get-temp-by-city")].statusAtEnd = "error"
  /\ tel.spans[SpanIdx(tel, "service-b: get-city-by-cep")].statusAtEnd = "ok"
  /\ \A i \in 1..Len(tel.spans) : Closed(tel.spans[i])

\* The call to the Back Service came back as a failure.
BackCallFailed ==
  \/ downstream.kind = "transport"
  \/ downstream.kind = "resp" /\ downstream.status # StatusOK

\* The City Resolver call came back with a city: a localidade that is a
\* string and not empty, and no erro.
CityResolved ==
  /\ CityObject
  /\ cityReply.body.localidade.j = "str"
  /\ cityReply.body.localidade.s # ""
  /\ cityReply.body.erro \in {JAbsent, JNull, JStr("")}

\* The City Resolver call came back without a city.
CityCallFailed == cityReply.kind # "none" /\ ~CityResolved

\* The Temperature Resolver call came back as a failure.
TempCallFailed ==
  \/ tempReply.kind \in {"transport", "read"}
  \/ tempReply.kind = "resp" /\ tempReply.status # StatusOK
  \/ tempReply.kind = "resp" /\ TempUndecodable(tempReply.body)

SingleAttemptInOrder ==
  /\ calls.back <= 1
  /\ calls.city <= 1
  /\ calls.temp <= 1
  /\ calls.back = 1 =>
       /\ entry = "front"
       /\ reqBody.t = "object"
       /\ reqBody.cep.j = "str"
       /\ EightDigits(reqBody.cep.s)
  /\ calls.city = 1 => BackEntered /\ EightDigits(QueryGet(reqQuery))
  /\ calls.temp = 1 =>
       /\ calls.city = 1
       /\ CityResolved
  /\ cityReply.kind # "none" => calls.city = 1
  /\ tempReply.kind # "none" => calls.temp = 1

\* C11: within one inbound request each collaborator is tried once and in a
\* fixed order: the Back Service is called at most once and only for a code
\* that validation accepted, the City Resolver at most once and only after
\* validation, the Temperature Resolver at most once and only after a city
\* was resolved; once one of these calls has failed or timed out no further
\* call is made.
C11_SingleAttempt ==
  /\ []SingleAttemptInOrder
  /\ [][(BackCallFailed \/ CityCallFailed \/ TempCallFailed) => calls' = calls]_vars

\* The City Resolver call timed out: the chain ended with one call to the
\* Back Service, one to the City Resolver and none to the Temperature
\* Resolver.
C11_Witness ==
  /\ FrontDone
  /\ cityReply = Transport(TimeoutErr)
  /\ calls = [back |-> 1, city |-> 1, temp |-> 0]

\* Decimals as exact numbers: [neg, p, k] is (-1)^neg * p / 10^k.
DecEq(a, b) ==
  /\ BMul(a.p, Pow10(b.k)) = BMul(b.p, Pow10(a.k))
  /\ a.neg = b.neg \/ a.p = <<>>

\* a - b for decimals of one scale k, a taken negative when aNeg.
DecSum(aNeg, a, b, k) ==
  IF ~aNeg THEN [neg |-> FALSE, p |-> BAdd(a, b), k |-> k]
  ELSE IF BCmp(b, a) >= 0 THEN [neg |-> FALSE, p |-> BSub(b, a), k |-> k]
  ELSE [neg |-> TRUE, p |-> BSub(a, b), k |-> k]

\* c * 1.8 + 32 and c + 273.15 in exact decimal arithmetic.
ExactFahrenheit(c) ==
  DecSum(c.neg, BMul(c.p, FromNat(18)), BMul(FromNat(32), Pow10(c.k + 1)),
         c.k + 1)
ExactKelvin(c) ==
  DecSum(c.neg, BMul(c.p, FromNat(100)), BMul(FromNat(27315), Pow10(c.k)),
         c.k + 2)

\* The Temperature Resolver answered 200 with a numeric reading and the Back
\* Service has returned.
ReadingServed ==
  /\ BackEntered
  /\ tempReply.kind = "resp"
  /\ tempReply.status = StatusOK
  /\ tempReply.body.t = "object"
  /\ tempReply.body.temp_c.j = "num"
  /\ bw # <<>>

\* C12: for every Celsius reading tempC of the Temperature Resolver, negative,
\* zero or positive, the 200 response of the Back Service carries temp_C =
\* tempC, temp_F = tempC * 1.8 + 32 and temp_K = tempC + 273.15 as exact
\* decimals, and the Front Service forwards the three values unchanged.
C12_ExactConversion ==
  /\ ReadingServed =>
       /\ Served(bw).status = StatusOK
       /\ DecEq(Served(bw).body.temp_C, tempReply.body.temp_c.n)
       /\ DecEq(Served(bw).body.temp_F, ExactFahrenheit(tempReply.body.temp_c.n))
       /\ DecEq(Served(bw).body.temp_K, ExactKelvin(tempReply.body.temp_c.n))
  /\ ReadingServed /\ FrontDone => Served(aw) = Served(bw)

\* C13: the validator of either service accepts a string if and only if it
\* is exactly eight decimal digits: a string of another length or with a
\* character that is no digit is rejected, any eight digits are accepted.
C13_ValidatorIffEightDigits ==
  probe.stage = "validated" =>
    /\ probe.front <=> EightDigits(probe.cep)
    /\ probe.back <=> EightDigits(probe.cep)

\* Both validators were applied to 87043480 and accepted it.
C13_Witness ==
  /\ probe.stage = "validated"
  /\ probe.cep = CepMaringa
  /\ probe.front
  /\ probe.back

\* Two requests with the same postal code that were given the same
\* collaborator responses, both answered.
Twins(r, q) ==
  /\ reqs[r].pc = "done"
  /\ reqs[q].pc = "done"
  /\ reqs[r].body = reqs[q].body
  /\ reqs[r].cityReply = reqs[q].cityReply
  /\ reqs[r].tempReply = reqs[q].tempReply

\* C14: the response to a request is a function of its postal code and of
\* the collaborator responses it receives only: two requests with the same
\* postal code and the same collaborator responses get identical responses
\* from the Back Service and from the Front Service, however their steps
\* and those of other requests interleave.
C14_SameInputsSameResponse ==
  \A r, q \in Requests :
    Twins(r, q) => reqs[r].aw = reqs[q].aw /\ reqs[r].bw = reqs[q].bw

\* Two requests for 87043480 overlapped, one answered while the other was
\* in flight, and both were answered 200 for the city São Paulo.
C14_Witness ==
  /\ Twins("r1", "r2")
  /\ reqs["r1"].met
  /\ reqs["r2"].met
  /\ reqs["r1"].body = CEPObject(JStr(CepMaringa))
  /\ reqs["r1"].cityReply = Reply(StatusOK, ViaCEPObject(JStr("São Paulo"), JAbsent))
  /\ Served(reqs["r1"].aw).status = StatusOK
  /\ Served(reqs["r2"].aw).body.city = "São Paulo"

\* The process is past the test of its required variable.
PastRequired == boot.pc \in {"port", "listen", "serving", "fatal", "stopped"}

\* C15: a service whose required environment variable is missing aborts at
\* startup before it serves any request: the Front Service without
\* SERVICE_B_URL, the Back Service without WEATHERAPI_KEY; without PORT a
\* service goes on with its default port.
C15_AbortsWithoutRequired ==
  /\ boot.service = "A" /\ Getenv(boot.env, "SERVICE_B_URL") = ""
       => ~PastRequired /\ ~boot.served
  /\ boot.service = "B" /\ Getenv(boot.env, "WEATHERAPI_KEY") = ""
       => ~PastRequired /\ ~boot.served
  /\ boot.pc \in {"listen", "serving"} /\ Getenv(boot.env, "PORT") = ""
       => boot.port = defaultPort(boot.service)

\* HandleCEP, WeatherHandler have returned.
FrontReturned == entry = "front" /\ pc = "done"
BackReturned ==
  \/ entry = "direct" /\ pc = "done"
  \/ link = "delivered" /\ pc \in {"resume", "done"}

\* A write of one status code and one JSON document.
IsResponse(x) ==
  /\ x.status \in {StatusOK, StatusBadRequest, StatusNotFound,
                    StatusUnprocessableEntity, StatusInternalServerError}
  /\ x.body.t \in {"error", "weather"}

\* The places of a request chain in the order a run goes through them.
Stages == <<"idle", "call", "city", "temp", "resume", "done">>
StageOf(p) == CHOOSE i \in 1..Len(Stages) : Stages[i] = p

\* A handler that has returned has written one response, a handler that has
\* not has written none.
OneResponseEach ==
  /\ Len(aw) = IF FrontReturned THEN 1 ELSE 0
  /\ Len(bw) = IF BackReturned THEN 1 ELSE 0
  /\ \A i \in 1..Len(aw) : IsResponse(aw[i])
  /\ \A i \in 1..Len(bw) : IsResponse(bw[i])

C17_SameAnswer ==
  FrontDone => plain.pc = "done" /\ Served(plain.w) = Served(aw)

====
